---------------------------- MODULE Spec2Model ----------------------------
(***************************************************************************)
(* A model of erd-viewer.py: the identifier formatter getName, the Table   *)
(* and Column classes, importMetadata (tables, columns, unique keys,       *)
(* primary keys, foreign keys, in that order) and the text the two         *)
(* generators derive from the imported model.                              *)
(*                                                                         *)
(* A Python string is a sequence of one-character strings.  A generated    *)
(* text is a sequence of pieces whose concatenation is the text: a literal *)
(* of the source is one piece, an interpolated name or number is spelled   *)
(* character by character.                                                 *)
(***************************************************************************)
EXTENDS Integers, Sequences, FiniteSets, TLC

VARIABLES
    pc,         \* position of importMetadata / main
    tables,     \* the dict `tables`, in insertion order
    row,        \* the loop variable `row` of the running phase
    n,          \* rows fetched so far in the running phase
    fault,      \* the exception that left importMetadata, or "none"
    name,       \* getName: the argument
    spelled,    \* getName: the result (NotYet before the call)
    desc,       \* column type: the parsed json descriptor
    datatype    \* column type: column.datatype after line 224

vars == <<pc, tables, row, n, fault, name, spelled, desc, datatype>>

NotYet == <<"?">>

----------------------------------------------------------------------------
(* Characters and strings *)

Upper == {"A","B","C","D","E","F","G","H","I","J","K","L","M",
          "N","O","P","Q","R","S","T","U","V","W","X","Y","Z"}

Digit == {"0","1","2","3","4","5","6","7","8","9"}

\* str.lower() on one character
LowerChar(c) ==
    CASE c = "A" -> "a" [] c = "B" -> "b" [] c = "C" -> "c" [] c = "D" -> "d"
      [] c = "E" -> "e" [] c = "F" -> "f" [] c = "G" -> "g" [] c = "H" -> "h"
      [] c = "I" -> "i" [] c = "J" -> "j" [] c = "K" -> "k" [] c = "L" -> "l"
      [] c = "M" -> "m" [] c = "N" -> "n" [] c = "O" -> "o" [] c = "P" -> "p"
      [] c = "Q" -> "q" [] c = "R" -> "r" [] c = "S" -> "s" [] c = "T" -> "t"
      [] c = "U" -> "u" [] c = "V" -> "v" [] c = "W" -> "w" [] c = "X" -> "x"
      [] c = "Y" -> "y" [] c = "Z" -> "z" [] OTHER -> c

\* str.lower()
Lower(s) == [i \in 1..Len(s) |-> LowerChar(s[i])]

DigitChar(d) ==
    CASE d = 0 -> "0" [] d = 1 -> "1" [] d = 2 -> "2" [] d = 3 -> "3"
      [] d = 4 -> "4" [] d = 5 -> "5" [] d = 6 -> "6" [] d = 7 -> "7"
      [] d = 8 -> "8" [] d = 9 -> "9"

\* str(k) for a natural number k
RECURSIVE Str(_)
Str(k) == IF k < 10 THEN <<DigitChar(k)>>
          ELSE Str(k \div 10) \o <<DigitChar(k % 10)>>

\* s.startswith(p)
StartsWith(s, p) == Len(s) >= Len(p) /\ SubSeq(s, 1, Len(p)) = p

----------------------------------------------------------------------------
(* getName *)

NameClass == Upper \cup Digit \cup {"_"}

\* re.match("^[A-Z_0-9]*$", name) != None.  Without re.MULTILINE, $ matches
\* at the end of the string and also just before a newline that ends it.
ReMatch(s) ==
    \E k \in 0..Len(s) :
        /\ \A i \in 1..k : s[i] \in NameClass
        /\ \/ k = Len(s)
           \/ k = Len(s) - 1 /\ s[Len(s)] = "\n"

getName(nm) ==
    IF ReMatch(nm) THEN Lower(nm) ELSE <<"\"">> \o nm \o <<"\"">>

----------------------------------------------------------------------------
(* The column data type, importMetadata lines 195-224 *)

sNUMBER == <<"N","U","M","B","E","R">>
sFIXED == <<"F","I","X","E","D">>
sTEXT == <<"T","E","X","T">>
sCHAR == <<"C","H","A","R">>
sVARCHAR == <<"V","A","R","C","H","A","R">>
sINT == <<"I","N","T">>
sTIMESTAMP == <<"T","I","M","E","S","T","A","M","P">>
sTIMESTAMP_NTZ == sTIMESTAMP \o <<"_","N","T","Z">>

Has(d, key) == key \in DOMAIN d

\* lines 200-205
BaseType(d) ==
    IF d.type = sFIXED THEN sNUMBER
    ELSE IF Has(d, "fixed") /\ d.type = sTEXT
         THEN (IF d.fixed THEN sCHAR ELSE sVARCHAR)
         ELSE d.type

\* A plausible slip: the NUMBER(38) case is not singled out.
ScaleZero_no38(t, d) ==
    LET u == t \o <<"(">> \o Str(d.precision) \o <<")">>
    IN  IF StartsWith(u, sNUMBER \o <<"(">>)
        THEN sINT \o <<"(">> \o Str(d.precision) \o <<")">>
        ELSE u

\* lines 214-219
ScaleZero(t, d) ==
    LET u == t \o <<"(">> \o Str(d.precision) \o <<")">>
    IN  IF u = sNUMBER \o <<"(","3","8",")">> THEN sINT
        ELSE IF StartsWith(u, sNUMBER \o <<"(">>)
             THEN sINT \o <<"(">> \o Str(d.precision) \o <<")">>
             ELSE u

\* lines 207-221
Sized(t, d) ==
    IF Has(d, "length") THEN t \o <<"(">> \o Str(d.length) \o <<")">>
    ELSE IF Has(d, "scale") THEN
        IF d.precision = 0 THEN
            LET u == t \o <<"(">> \o Str(d.scale) \o <<")">>
            IN  IF u = sTIMESTAMP_NTZ \o <<"(","9",")">> THEN sTIMESTAMP ELSE u
        ELSE IF d.scale = 0 THEN ScaleZero(t, d)
        ELSE t \o <<"(">> \o Str(d.precision) \o <<",">> \o Str(d.scale) \o <<")">>
    ELSE t

\* lines 196-224: the value left in column.datatype
ConvertType(d) == Lower(Sized(BaseType(d), d))

----------------------------------------------------------------------------
(* The catalog: the rows the five SHOW statements can return.  Each phase  *)
(* fetches some of its rows, in some order.                                *)

T1 == <<"T","1">>
T2 == <<"T","2">>
cA == <<"A">>
cB == <<"B">>
cc == <<"c">>
U1 == <<"U","1">>
F1 == <<"F","1">>
F2 == <<"F","2">>
F3 == <<"F","3">>
F4 == <<"F","4">>

\* show tables: row[1]
TableNames == {T1, T2}

\* show tables: row[5]
TableComment(t) == IF t = T1 THEN <<"i","t","'","s">> ELSE <<>>

\* show columns: row[2], in ordinal order
ColumnNames == <<cA, cB, cc>>

\* show columns: row[3], the json text parsed
ColumnType(t, c) ==
    IF c = cA THEN [type |-> sFIXED, nullable |-> FALSE, precision |-> 38, scale |-> 0]
    ELSE IF c = cB THEN [type |-> sNUMBER, nullable |-> (t = T2), precision |-> 10, scale |-> 2]
    ELSE [type |-> sTEXT, nullable |-> TRUE, fixed |-> FALSE, length |-> 20]

\* show columns: row[8]
ColumnComment(t, c) == IF t = T2 /\ c = cB THEN <<"k","e","y">> ELSE <<>>

\* show columns: row[10]
ColumnIdentity(t, c) == IF t = T2 /\ c = cA THEN <<"I","D","E","N","T","I","T","Y">> ELSE <<>>

\* show unique keys: row[3], row[4], row[6]
UniqueKeys ==
    { [table |-> T2, column |-> cc, constraint |-> U1],
      [table |-> T1, column |-> cc, constraint |-> U1] }

\* show primary keys: row[3], row[4], row[5]
PrimaryKeys ==
    { [table |-> T1, column |-> cA, pos |-> 1],
      [table |-> T1, column |-> cB, pos |-> 2],
      [table |-> T1, column |-> cc, pos |-> 3],
      [table |-> T2, column |-> cB, pos |-> 1],
      [table |-> T2, column |-> cA, pos |-> 2] }

\* show imported keys: row[2], row[3], row[4], row[6], row[7], row[8], row[12]
ImportedKeys ==
    { [pschema |-> "S", ptable |-> T2, pcolumn |-> cB,
       cschema |-> "S", ctable |-> T1, ccolumn |-> cA, constraint |-> F1],
      [pschema |-> "S", ptable |-> T2, pcolumn |-> cA,
       cschema |-> "S", ctable |-> T1, ccolumn |-> cB, constraint |-> F1],
      [pschema |-> "S", ptable |-> T1, pcolumn |-> cc,
       cschema |-> "S", ctable |-> T1, ccolumn |-> cA, constraint |-> F2],
      [pschema |-> "S", ptable |-> T2, pcolumn |-> cc,
       cschema |-> "S", ctable |-> T1, ccolumn |-> cc, constraint |-> F3],
      [pschema |-> "X", ptable |-> T2, pcolumn |-> cA,
       cschema |-> "S", ctable |-> T1, ccolumn |-> cA, constraint |-> F4] }

MaxTableRows == 3
MaxUniqueRows == 2
MaxPkRows == 3
MaxFkRows == 3

----------------------------------------------------------------------------
(* Table and Column *)

NoCol == [t |-> <<>>, c |-> 0]
NoRow == [kind |-> "none"]

\* Table.__init__
NewTable(nm, comment) ==
    [name |-> nm, comment |-> comment, label |-> <<>>,
     columns |-> <<>>, uniques |-> <<>>, pks |-> <<>>, fks |-> <<>>]

\* Column.__init__
NewColumn(nm, comment) ==
    [name |-> nm, comment |-> comment, nullable |-> TRUE, datatype |-> <<>>,
     identity |-> FALSE, isunique |-> FALSE, ispk |-> FALSE, fkof |-> NoCol]

\* `name in tables` / tables[name]: the position of the key, 0 when absent
Find(tbls, nm) ==
    IF \E i \in 1..Len(tbls) : tbls[i].name = nm
    THEN CHOOSE i \in 1..Len(tbls) : tbls[i].name = nm
    ELSE 0

\* Table.getColumn: the first column of that name, 0 for None
getColumn(t, nm) ==
    IF \E i \in 1..Len(t.columns) : t.columns[i].name = nm
    THEN CHOOSE i \in 1..Len(t.columns) :
            /\ t.columns[i].name = nm
            /\ \A j \in 1..(i - 1) : t.columns[j].name # nm
    ELSE 0

\* `constraint in d` / d[constraint] for the dicts uniques and fks
FindKey(d, k) ==
    IF \E i \in 1..Len(d) : d[i].name = k
    THEN CHOOSE i \in 1..Len(d) : d[i].name = k
    ELSE 0

\* d[constraint] = [] when absent, then d[constraint].append(col)
AddMember(d, k, col) ==
    IF FindKey(d, k) = 0
    THEN Append(d, [name |-> k, cols |-> <<col>>])
    ELSE [d EXCEPT ![FindKey(d, k)].cols = Append(@, col)]

\* list.insert(pos, x) for pos >= 0
Insert(s, pos, x) ==
    IF pos >= Len(s) THEN Append(s, x)
    ELSE SubSeq(s, 1, pos) \o <<x>> \o SubSeq(s, pos + 1, Len(s))

----------------------------------------------------------------------------
(* importMetadata *)

\* lines 180-184: one row of "show tables"
ImportTable(nm) ==
    /\ pc = "tables"
    /\ n < MaxTableRows
    /\ LET table == NewTable(nm, TableComment(nm))
           k == Find(tables, nm)
           put == IF k = 0 THEN Append(tables, table)
                  ELSE [tables EXCEPT ![k] = table]
           at == IF k = 0 THEN Len(tables) + 1 ELSE k
       IN  tables' = [put EXCEPT ![at].label = <<"n">> \o Str(Len(put))]
    /\ row' = [kind |-> "table", name |-> nm]
    /\ n' = n + 1
    /\ UNCHANGED <<pc, fault, name, spelled, desc, datatype>>

\* lines 188-224: one row of "show columns"; the catalog lists the columns
\* of a table once each, in ordinal order
ImportColumn(tn) ==
    /\ pc = "columns"
    /\ Find(tables, tn) # 0
    /\ LET k == Find(tables, tn)
           ord == Len(tables[k].columns) + 1
       IN  /\ ord <= Len(ColumnNames)
           /\ LET nm == ColumnNames[ord]
                  d == ColumnType(tn, nm)
                  column == [NewColumn(nm, ColumnComment(tn, nm)) EXCEPT
                                !.identity = (ColumnIdentity(tn, nm) # <<>>),
                                !.nullable = d.nullable,
                                !.datatype = ConvertType(d)]
              IN  /\ tables' = [tables EXCEPT ![k].columns = Append(@, column)]
                  /\ row' = [kind |-> "column", table |-> tn, name |-> nm]
    /\ n' = n + 1
    /\ UNCHANGED <<pc, fault, name, spelled, desc, datatype>>

\* lines 228-237: one row of "show unique keys"
ImportUnique(r) ==
    /\ pc = "uniques"
    /\ n < MaxUniqueRows
    /\ Find(tables, r.table) # 0
    /\ LET k == Find(tables, r.table)
           c == getColumn(tables[k], r.column)
       IN  /\ c # 0
           /\ ~tables[k].columns[c].isunique
           /\ tables' = [tables EXCEPT
                            ![k].uniques = AddMember(@, r.constraint, c),
                            ![k].columns[c].isunique = TRUE]
    /\ row' = [kind |-> "unique"] @@ r
    /\ n' = n + 1
    /\ UNCHANGED <<pc, fault, name, spelled, desc, datatype>>

\* lines 246-247
PkInsert(pks, pos, c) == Insert(pks, pos - 1, c)

\* lines 241-247: one row of "show primary keys"
ImportPK(r) ==
    /\ pc = "pks"
    /\ n < MaxPkRows
    /\ Find(tables, r.table) # 0
    /\ LET k == Find(tables, r.table)
           c == getColumn(tables[k], r.column)
       IN  /\ c # 0
           /\ ~tables[k].columns[c].ispk
           /\ tables' = [tables EXCEPT
                            ![k].columns[c].ispk = TRUE,
                            ![k].pks = PkInsert(@, r.pos, c)]
    /\ row' = [kind |-> "pk"] @@ r
    /\ n' = n + 1
    /\ UNCHANGED <<pc, fault, name, spelled, desc, datatype>>

\* lines 251-266: one row of "show imported keys".  The child side is in
\* the schema at hand and resolves; a parent in the same schema resolves to
\* a key column, a parent in another schema is looked up by name all the same.
ImportFK(r) ==
    /\ pc = "fks"
    /\ n < MaxFkRows
    /\ Find(tables, r.ctable) # 0
    /\ getColumn(tables[Find(tables, r.ctable)], r.ccolumn) # 0
    /\ r.pschema = r.cschema =>
          /\ Find(tables, r.ptable) # 0
          /\ LET pt == tables[Find(tables, r.ptable)]
                 pc0 == getColumn(pt, r.pcolumn)
             IN  /\ pc0 # 0
                 /\ pt.columns[pc0].ispk \/ pt.columns[pc0].isunique
          /\ LET ft == tables[Find(tables, r.ctable)]
                 k == FindKey(ft.fks, r.constraint)
             IN  k # 0 => \A i \in 1..Len(ft.fks[k].cols) :
                              ft.columns[ft.fks[k].cols[i]].name # r.ccolumn
    /\ row' = [kind |-> "fk"] @@ r
    /\ n' = n + 1
    /\ IF Find(tables, r.ptable) = 0
       THEN \* line 252: KeyError
            /\ pc' = "crashed"
            /\ fault' = "KeyError"
            /\ UNCHANGED tables
       ELSE LET p == Find(tables, r.ptable)
                pkcolumn == getColumn(tables[p], r.pcolumn)
                f == Find(tables, r.ctable)
                fkcolumn == getColumn(tables[f], r.ccolumn)
            IN  /\ IF r.pschema # r.cschema
                   THEN UNCHANGED tables
                   ELSE tables' = [tables EXCEPT
                            ![f].fks = AddMember(@, r.constraint, fkcolumn),
                            ![f].columns[fkcolumn].fkof =
                                IF pkcolumn = 0 THEN NoCol
                                ELSE [t |-> r.ptable, c |-> pkcolumn]]
                /\ UNCHANGED <<pc, fault>>
    /\ UNCHANGED <<name, spelled, desc, datatype>>

NextPhase(p) ==
    CASE p = "tables" -> "columns"
      [] p = "columns" -> "uniques"
      [] p = "uniques" -> "pks"
      [] p = "pks" -> "fks"
      [] p = "fks" -> "done"

\* the rows of the running phase are exhausted: the next statement runs, or
\* importMetadata returns
EndOfRows ==
    /\ pc \in {"tables", "columns", "uniques", "pks", "fks"}
    /\ pc' = NextPhase(pc)
    /\ n' = 0
    /\ row' = NoRow
    /\ UNCHANGED <<tables, fault, name, spelled, desc, datatype>>

Init ==
    /\ pc = "tables"
    /\ tables = <<>>
    /\ row = NoRow
    /\ n = 0
    /\ fault = "none"
    /\ name = <<>>
    /\ spelled = NotYet
    /\ desc = [type |-> <<>>, nullable |-> TRUE]
    /\ datatype = NotYet

Next ==
    \/ \E nm \in TableNames : ImportTable(nm)
    \/ \E tn \in TableNames : ImportColumn(tn)
    \/ \E r \in UniqueKeys : ImportUnique(r)
    \/ \E r \in PrimaryKeys : ImportPK(r)
    \/ \E r \in ImportedKeys : ImportFK(r)
    \/ EndOfRows

Spec == Init /\ [][Next]_vars

----------------------------------------------------------------------------
(* The generators *)

\* sep.join(items), items a sequence of strings
RECURSIVE Join(_, _)
Join(items, sep) ==
    IF items = <<>> THEN <<>>
    ELSE IF Len(items) = 1 THEN items[1]
    ELSE items[1] \o sep \o Join(Tail(items), sep)

\* s.replace("'", "''")
RECURSIVE DoubleQuotes(_)
DoubleQuotes(s) ==
    IF s = <<>> THEN <<>>
    ELSE (IF Head(s) = "'" THEN <<"'", "'">> ELSE <<Head(s)>>) \o DoubleQuotes(Tail(s))

\* [getName(column.name) for column in cols]
ColumnNamesOf(t, cols) == [i \in 1..Len(cols) |-> getName(t.columns[cols[i]].name)]

\* Table.getUniques
getUniques(t, k) ==
    <<",\n  unique (">> \o Join(ColumnNamesOf(t, t.uniques[k].cols), <<",", " ">>) \o <<")">>

\* Table.getPKs
getPKs(t) ==
    <<",\n  primary key (">> \o Join(ColumnNamesOf(t, t.pks), <<",", " ">>) \o <<")">>

\* A plausible slip: the inline clause is kept for the columns of a composite key.
InlinePK_always(t, c) ==
    IF ~t.columns[c].ispk THEN <<>> ELSE <<" primary key">>

\* line 165
InlinePK(t, c) ==
    IF ~t.columns[c].ispk \/ Len(t.pks) >= 2 THEN <<>> ELSE <<" primary key">>

\* Column.getCreateColumn, for column c of table t
getCreateColumn(t, c) ==
    LET col == t.columns[c]
        nullable == IF col.nullable \/ (col.ispk /\ Len(t.pks) = 1)
                    THEN <<>> ELSE <<" not null">>
        identity == IF ~col.identity THEN <<>> ELSE <<" identity">>
        escaped == DoubleQuotes(col.comment)
        comment == IF escaped # <<>>
                   THEN <<" comment '">> \o escaped \o <<"'">> ELSE <<>>
    IN  <<"\n  ">> \o getName(col.name) \o <<" ">> \o col.datatype
            \o nullable \o identity \o InlinePK(t, c) \o comment

\* lines 66-69
RECURSIVE CreateColumns(_, _)
CreateColumns(t, c) ==
    IF c > Len(t.columns) THEN <<>>
    ELSE (IF c = 1 THEN <<>> ELSE <<",">>) \o getCreateColumn(t, c)
            \o CreateColumns(t, c + 1)

\* lines 71-73
RECURSIVE CreateUniques(_, _)
CreateUniques(t, k) ==
    IF k > Len(t.uniques) THEN <<>>
    ELSE getUniques(t, k) \o CreateUniques(t, k + 1)

\* Table.getCreateTable
getCreateTable(t) ==
    <<"create or replace table ">> \o getName(t.name) \o <<" (">>
        \o CreateColumns(t, 1)
        \o CreateUniques(t, 1)
        \o (IF Len(t.pks) >= 2 THEN getPKs(t) ELSE <<>>)
        \o <<"\n)">>
        \o (IF t.comment # <<>>
            THEN <<" comment = '">> \o DoubleQuotes(t.comment) \o <<"'">> ELSE <<>>)
        \o <<";\n\n">>

\* column.fkof as a Column of the model
Deref(tbls, ref) == tbls[Find(tbls, ref.t)].columns[ref.c]

\* Table.getFKs, for the k-th constraint of table t
getFKs(tbls, t, k) ==
    LET constraint == t.fks[k].cols
        pktable == tbls[Find(tbls, t.columns[constraint[1]].fkof.t)]
        fklist == Join(ColumnNamesOf(t, constraint), <<",", " ">>)
        pklist == Join([i \in 1..Len(constraint) |->
                          getName(Deref(tbls, t.columns[constraint[i]].fkof).name)],
                       <<",", " ">>)
    IN  <<"alter table ">> \o getName(t.name) \o <<"\n">>
            \o <<"  add foreign key (">> \o fklist \o <<") references ">>
            \o getName(pktable.name) \o <<" (">> \o pklist \o <<");\n\n">>

Themes == {"Common Gray", "Common Gray Box", "Blue Navy", "Gradient Green", "Blue Sky"}

\* lines 137-141: the edge line of the k-th constraint of table t
DotLink(tbls, t, k, theme) ==
    LET pencolor == IF theme = "Blue Navy" THEN "#0078d7" ELSE "#696969"
        penwidth == IF theme = "Blue Navy" THEN "2" ELSE "1"
        fk1 == t.columns[t.fks[k].cols[1]]
        parent == tbls[Find(tbls, fk1.fkof.t)]
        dashed == IF ~fk1.nullable THEN <<>> ELSE <<" style=\"dashed\"">>
        arrow == IF fk1.ispk /\ Len(t.pks) = Len(parent.pks)
                 THEN <<>> ELSE <<" arrowtail=\"crow\"">>
    IN  <<"  ">> \o t.label \o <<" -> ">> \o parent.label
            \o <<" [ penwidth=\"", penwidth, "\" color=\"", pencolor, "\"">>
            \o dashed \o arrow \o <<" ]\n">>

\* Table.getDotLinks: the lines, in order
getDotLinks(tbls, t, theme) == [k \in 1..Len(t.fks) |-> DotLink(tbls, t, k, theme)]

\* concatenation of a sequence of sequences
RECURSIVE Flatten(_)
Flatten(ss) == IF ss = <<>> THEN <<>> ELSE Head(ss) \o Flatten(Tail(ss))

\* dumpCreateScript lines 275-276: the CREATE TABLE statements, in order
CreateStatements(tbls) == [i \in 1..Len(tbls) |-> getCreateTable(tbls[i])]

\* dumpCreateScript lines 277-279: the ALTER TABLE statements, in order
AlterStatements(tbls) ==
    Flatten([i \in 1..Len(tbls) |->
                [k \in 1..Len(tbls[i].fks) |-> getFKs(tbls, tbls[i], k)]])

\* dumpDotERD lines 306-307: the edge lines, in order
EdgeLines(tbls, theme) ==
    Flatten([i \in 1..Len(tbls) |-> getDotLinks(tbls, tbls[i], theme)])

----------------------------------------------------------------------------
(* getName on its own: any identifier of up to MaxNameLen characters *)

MaxNameLen == 3

NameAlphabet == {"A", "b", "_", "7", " ", "\n"}

Identifiers == UNION {[1..k -> NameAlphabet] : k \in 0..MaxNameLen}

InitName ==
    /\ pc = "call"
    /\ name \in Identifiers
    /\ spelled = NotYet
    /\ tables = <<>>
    /\ row = NoRow
    /\ n = 0
    /\ fault = "none"
    /\ desc = [type |-> <<>>, nullable |-> TRUE]
    /\ datatype = NotYet

CallGetName ==
    /\ pc = "call"
    /\ spelled' = getName(name)
    /\ pc' = "returned"
    /\ UNCHANGED <<tables, row, n, fault, name, desc, datatype>>

SpecName == InitName /\ [][CallGetName]_vars

----------------------------------------------------------------------------
(* The column data type on its own: any descriptor within the bounds *)

MaxPrecision == 39
MaxScale == 9

TypeNames == {sNUMBER, sFIXED, sTEXT, sTIMESTAMP_NTZ}

Lengths == {1, 20}

WithFixed(ds) == ds \cup {d @@ [fixed |-> b] : d \in ds, b \in BOOLEAN}

WithLength(ds) == ds \cup {d @@ [length |-> l] : d \in ds, l \in Lengths}

WithScale(ds) ==
    ds \cup {d @@ [precision |-> p, scale |-> s] :
                d \in ds, p \in 0..MaxPrecision, s \in 0..MaxScale}

Descriptors == WithScale(WithLength(WithFixed([type : TypeNames, nullable : BOOLEAN])))

InitType ==
    /\ pc = "call"
    /\ desc \in Descriptors
    /\ datatype = NotYet
    /\ tables = <<>>
    /\ row = NoRow
    /\ n = 0
    /\ fault = "none"
    /\ name = <<>>
    /\ spelled = NotYet

\* lines 196-224 on one descriptor
ConvertColumnType ==
    /\ pc = "call"
    /\ datatype' = ConvertType(desc)
    /\ pc' = "returned"
    /\ UNCHANGED <<tables, row, n, fault, name, spelled, desc>>

SpecType == InitType /\ [][ConvertColumnType]_vars

----------------------------------------------------------------------------
(* What the catalog declares, for the statements below *)

\* the key position the catalog gives column cn of table tn
KeyPos(tn, cn) == (CHOOSE r \in PrimaryKeys : r.table = tn /\ r.column = cn).pos

\* the catalog row that makes column cn of table tn a member of constraint k
DeclaredFK(tn, k, cn) ==
    CHOOSE r \in ImportedKeys : r.ctable = tn /\ r.constraint = k /\ r.ccolumn = cn

\* the parent table the catalog gives constraint k of table tn
DeclaredParent(tn, k) ==
    (CHOOSE r \in ImportedKeys : r.ctable = tn /\ r.constraint = k).ptable

IsIn(x, s) == \E j \in 1..Len(s) : s[j] = x

Occurrences(x, s) == {j \in 1..Len(s) : s[j] = x}

CrossSchema(r) == r.kind = "fk" /\ r.pschema # r.cschema

----------------------------------------------------------------------------
(* The statements *)

\* C1: for every table, the CREATE TABLE text follows the primary-key
\* policy.  With two or more columns in pks no column definition carries the
\* inline " primary key" clause and the text holds exactly one trailing
\* "primary key (...)" clause, which lists the columns of pks in stored
\* order; with one column in pks exactly that column's definition carries
\* the inline clause and there is no trailing clause; with none, neither.
C1_PrimaryKeyPolicy ==
    \A i \in 1..Len(tables) :
        LET t == tables[i]
            text == getCreateTable(t)
            inline == {c \in 1..Len(t.columns) :
                          IsIn(" primary key", getCreateColumn(t, c))}
            trailing == Occurrences(",\n  primary key (", text)
            clause == <<",\n  primary key (">>
                        \o Join([j \in 1..Len(t.pks) |->
                                    getName(t.columns[t.pks[j]].name)], <<",", " ">>)
                        \o <<")">>
        IN  /\ Cardinality(Occurrences(" primary key", text)) = Cardinality(inline)
            /\ Len(t.pks) >= 2 =>
                  /\ inline = {}
                  /\ Cardinality(trailing) = 1
                  /\ \A j \in trailing : SubSeq(text, j, j + Len(clause) - 1) = clause
            /\ Len(t.pks) = 1 => inline = {t.pks[1]} /\ trailing = {}
            /\ Len(t.pks) = 0 => inline = {} /\ trailing = {}

\* C1 witness: the import is over and the model holds a table with a
\* composite key and a table with a single-column key.
C1_Witness ==
    /\ pc = "done"
    /\ \E i, j \in 1..Len(tables) :
          /\ Len(tables[i].pks) >= 2
          /\ Len(tables[j].pks) = 1
          /\ Len(tables[j].columns) >= 2

\* C2: a foreign-key row whose parent schema differs from its child schema
\* is handled without a fatal error: the import goes on with the next row
\* and the model is left as it was (no member appended, no fkof set, hence
\* no edge), also when the parent table is not in the model.
C2_CrossSchemaSkipped ==
    [][(pc = "fks" /\ n' = n + 1 /\ CrossSchema(row'))
          => (fault' = "none" /\ pc' = "fks" /\ tables' = tables)]_vars

\* C3: when the primary-key rows of a table carried the positions 1..N, each
\* once, in any arrival order, pks holds the columns in increasing position.
C3_PksInKeyOrder ==
    \A i \in 1..Len(tables) :
        LET t == tables[i]
            pos == [j \in 1..Len(t.pks) |-> KeyPos(t.name, t.columns[t.pks[j]].name)]
        IN  {pos[j] : j \in 1..Len(t.pks)} = 1..Len(t.pks)
                => \A j \in 1..Len(t.pks) : pos[j] = j

\* C4: after import the diagram text has exactly one edge line per stored
\* foreign-key constraint, from the child table's label to the label of the
\* parent table of that constraint, and no other edge line.
C4_OneEdgePerConstraint ==
    pc = "done" =>
        \A theme \in Themes :
            LET lines == EdgeLines(tables, theme)
                cons == Flatten([i \in 1..Len(tables) |->
                            [k \in 1..Len(tables[i].fks) |-> <<i, k>>]])
            IN  /\ Len(lines) = Len(cons)
                /\ \A j \in 1..Len(cons) :
                      LET t == tables[cons[j][1]]
                          parent == tables[Find(tables,
                                        DeclaredParent(t.name, t.fks[cons[j][2]].name))]
                      IN  StartsWith(lines[j],
                              <<"  ">> \o t.label \o <<" -> ">> \o parent.label
                                  \o <<" [ penwidth=\"">>)

\* C5: every column whose fkof is set references a column with ispk = TRUE.
C5_FkofIsPrimaryKey ==
    \A i \in 1..Len(tables) :
        \A c \in 1..Len(tables[i].columns) :
            tables[i].columns[c].fkof # NoCol
                => Deref(tables, tables[i].columns[c].fkof).ispk

\* C6: after import, for every foreign-key constraint that references the
\* primary key of its parent table (as many members as the parent has key
\* columns, every member's fkof one of them), the i-th member column has the
\* i-th column of the parent table's pks as its fkof.
C6_MembersFollowParentKey ==
    pc = "done" =>
        \A i \in 1..Len(tables) :
            \A k \in 1..Len(tables[i].fks) :
                LET t == tables[i]
                    cols == t.fks[k].cols
                    ref == [j \in 1..Len(cols) |-> t.columns[cols[j]].fkof]
                    parent == tables[Find(tables, ref[1].t)]
                IN  (/\ Len(cols) = Len(parent.pks)
                     /\ \A j \in 1..Len(cols) :
                           /\ ref[j].t = parent.name
                           /\ IsIn(ref[j].c, parent.pks))
                        => \A j \in 1..Len(cols) : ref[j].c = parent.pks[j]

\* C7: getName returns the identifier lowercased and bare exactly when every
\* character of it is an uppercase letter, a digit or an underscore, and the
\* identifier unchanged between double quotes otherwise.
C7_GetNameRule ==
    pc = "returned" =>
        IF \A i \in 1..Len(name) : name[i] \in NameClass
        THEN spelled = Lower(name)
        ELSE spelled = <<"\"">> \o name \o <<"\"">>

\* C8: a NUMBER descriptor with a scale key, no length key and precision >= 1
\* becomes "int" for scale 0 and precision 38, "int(<precision>)" for scale 0
\* and another precision, "number(<precision>,<scale>)" for another scale,
\* and the result has no uppercase letter.
C8_NumberTypes ==
    (/\ pc = "returned"
     /\ desc.type = sNUMBER
     /\ Has(desc, "scale")
     /\ ~Has(desc, "length")
     /\ desc.precision >= 1)
        => /\ datatype =
                IF desc.scale = 0 /\ desc.precision = 38 THEN <<"i","n","t">>
                ELSE IF desc.scale = 0
                     THEN <<"i","n","t","(">> \o Str(desc.precision) \o <<")">>
                     ELSE <<"n","u","m","b","e","r","(">> \o Str(desc.precision)
                            \o <<",">> \o Str(desc.scale) \o <<")">>
           /\ \A i \in 1..Len(datatype) : datatype[i] \notin Upper

\* C8 witness: a NUMBER descriptor of precision 38 and scale 0 has been
\* converted.
C8_Witness ==
    /\ pc = "returned"
    /\ desc.type = sNUMBER
    /\ Has(desc, "scale") /\ ~Has(desc, "length")
    /\ desc.precision = 38 /\ desc.scale = 0
    /\ datatype = <<"i","n","t">>

\* C9: after import, the ALTER TABLE statement of every stored foreign-key
\* constraint names the parent table and the parent columns that the catalog
\* rows of that constraint declared, paired with the members in stored order.
C9_AlterNamesDeclaredParent ==
    pc = "done" =>
        \A i \in 1..Len(tables) :
            \A k \in 1..Len(tables[i].fks) :
                LET t == tables[i]
                    fk == t.fks[k]
                    member == [j \in 1..Len(fk.cols) |-> t.columns[fk.cols[j]].name]
                    fklist == Join([j \in 1..Len(fk.cols) |-> getName(member[j])],
                                   <<",", " ">>)
                    pklist == Join([j \in 1..Len(fk.cols) |->
                                      getName(DeclaredFK(t.name, fk.name, member[j]).pcolumn)],
                                   <<",", " ">>)
                IN  getFKs(tables, t, k) =
                        <<"alter table ">> \o getName(t.name) \o <<"\n">>
                            \o <<"  add foreign key (">> \o fklist \o <<") references ">>
                            \o getName(DeclaredParent(t.name, fk.name))
                            \o <<" (">> \o pklist \o <<");\n\n">>

\* C10: any two distinct Tables of the model have distinct diagram labels.
C10_LabelsDistinct ==
    \A i, j \in 1..Len(tables) : i # j => tables[i].label # tables[j].label

============================================================================
